---- MODULE Spec2Model ----
(***************************************************************************)
(* Model of src/main.rs: an emulated Nethuns RX socket.  A Socket wraps    *)
(* one Ring of RingSlots; Ring::recv claims the slot at `next` and hands   *)
(* out a RecvPacket borrowing the slot's status flag and packet buffer;    *)
(* dropping the RecvPacket stores false into the flag.                     *)
(***************************************************************************)
EXTENDS Integers, Sequences, FiniteSets, TLC

\* ---------------------------------------------------------------- constants
\* Vec::with_capacity(5): number of ring slots (main.rs:67)
RingCapacity == 5
\* vec![i as u8; 5]: length and capacity of every packet buffer (main.rs:71)
PacketCapacity == 5
\* 2^8: the width of u8 in `i as u8`
U8 == 256

\* ------------------------------------------------------------------- bounds
\* Largest reading of the monotonic clock (Instant::now()); the clock
\* saturates there, which a non-decreasing clock is allowed to do.
MaxClock == 1
\* Saturation point of the ghost counter of recv() calls made before the
\* first release.
MaxCalls == 7
\* Saturation point of the ghost counters of successful recv() calls made
\* since a slot was last returned.
MaxSince == 7
\* Number of recv() invocations the two racing callers may start in all.
MaxRaceCalls == 2

VARIABLES
    socket,   \* Socket { inner: Ring { slots, next } }
    v,        \* the caller's live RecvPackets (main's `v: Vec<RecvPacket>`)
    clock,    \* last reading of Instant::now()
    pc,       \* position of main(); "caller" for an arbitrary API caller
    out1,     \* what main's first  `for pkt in &v { println!(..) }` printed
    out2,     \* what main's second `for pkt in &v { println!(..) }` printed
    last,     \* observation of the last operation: its name, result, writes
    prev,     \* ghost: {index of the latest successful recv}, {} if none
    hist,     \* ghost: per slot, its latest lifecycle event
    seen,     \* ghost: per slot, the buffer contents observed at its claims
    fresh,    \* ghost: {number of recv() calls so far}, {} once a release happened
    since,    \* ghost: per slot, {successful recv() calls since it was returned}
    eager,    \* ghost: every recv() so far was called with no RecvPacket live
    call,     \* per caller, the position and locals of its recv() in progress
    started,  \* number of step-wise recv() invocations started
    raced     \* ghost: a caller passed the check of a slot inside another's
              \* check-to-claim window

vars == <<socket, v, clock, pc, out1, out2, last, prev, hist, seen, fresh,
          since, eager, call, started, raced>>

\* Indices of the ring's slots: `0..slots.capacity()` (main.rs:68)
SlotIdx == 0 .. (RingCapacity - 1)

\* ---------------------------------------------------------------- Vec<u8>
\* A Vec<u8> is its contents and its capacity.
\* vec![x; n] (main.rs:71)
VecFromElem(x, n) == [data |-> [j \in 1 .. n |-> x], cap |-> n]

\* Vec::clear (main.rs:98): drops the contents, keeps the capacity.
VecClear(vec) == [vec EXCEPT !.data = << >>]

\* Vec::push (main.rs:100): appends; grows (amortised doubling) when full.
VecPush(vec, x) ==
    [data |-> Append(vec.data, x),
     cap  |-> IF Len(vec.data) < vec.cap THEN vec.cap
              ELSE IF 2 * vec.cap > 8 THEN 2 * vec.cap ELSE 8]

\* `for i in 0..n { packet.push(i as u8) }` from i upwards (main.rs:99-101);
\* the range end n is evaluated once, before the loop.
RECURSIVE PushRange(_, _, _)
PushRange(vec, i, n) ==
    IF i >= n THEN vec ELSE PushRange(VecPush(vec, i % U8), i + 1, n)

\* Mutant of RefillPacket: the `packet.clear()` of main.rs:98 is missing.
RefillPacketNoClear(vec) == PushRange(vec, 0, vec.cap)

\* main.rs:98-101: clear the buffer, then push 0..capacity.
RefillPacket(vec) ==
    LET cleared == VecClear(vec) IN PushRange(cleared, 0, cleared.cap)

\* ------------------------------------------------------------------- Ring
\* RingSlot built by Ring::new for index i at time t (main.rs:69-73)
NewSlot(i, t) ==
    [status |-> FALSE, packet |-> VecFromElem(i % U8, PacketCapacity),
     timestamp |-> t]

\* Ring::new (main.rs:66-77) given the clock readings ts[i] of its loop.
Ring_new(ts) ==
    [slots |-> [i \in SlotIdx |-> NewSlot(i, ts[i])], next |-> 0]

\* `self.slots.len()` (main.rs:95)
SlotsLen(ring) == Cardinality(DOMAIN ring.slots)

\* Mutant of SlotInUse: the check of main.rs:85-87 is missing.
SlotInUseNever(ring, idx) == FALSE

\* Mutant of SlotInUse: the flag of the slot after idx is read instead.
SlotInUseNeighbour(ring, idx) ==
    ring.slots[(idx + 1) % SlotsLen(ring)].status

\* The check of main.rs:85: is the slot at idx in use?
SlotInUse(ring, idx) == ring.slots[idx].status

\* Mutant of NextAfter: `next` is not advanced.
NextAfterStuck(ring, idx) == idx

\* Mutant of NextAfter: the modulus is one short, `% (len - 1)`.
NextAfterShortWrap(ring, idx) == (idx + 1) % (SlotsLen(ring) - 1)

\* main.rs:95: circular increment of `next`.
NextAfter(ring, idx) == (idx + 1) % SlotsLen(ring)

\* The RecvPacket built at main.rs:106-110: its idx and the slot whose
\* status and packet it borrows.
MakeRecvPacket(idx) == [idx |-> idx, slot |-> idx]

\* Mutant of ClaimSlot: the refill of main.rs:98-101 indexes the slots with
\* `self.next`, already advanced, instead of `next_idx`.
ClaimSlotRefillAtNext(ring, idx, t) ==
    LET nxt == NextAfter(ring, idx)
        s0  == ring.slots[idx]
        s1  == [s0 EXCEPT !.status = TRUE]
        s2  == [s1 EXCEPT !.timestamp = t]
        sl  == [ring.slots EXCEPT ![idx] = s2]
    IN [ring  |-> [slots |-> [sl EXCEPT ![nxt].packet = RefillPacket(@)],
                   next  |-> nxt],
        ret   |-> {MakeRecvPacket(idx)},
        wrote |-> {nxt}]

\* The claim of slot idx, main.rs:89-110: flag, timestamp, cursor, buffer
\* refill, and the RecvPacket returned.  `wrote` is the set of slots whose
\* packet buffer was written.
ClaimSlot(ring, idx, t) ==
    LET s0 == ring.slots[idx]
        s1 == [s0 EXCEPT !.status = TRUE]
        s2 == [s1 EXCEPT !.timestamp = t]
        s3 == [s2 EXCEPT !.packet = RefillPacket(s2.packet)]
    IN [ring  |-> [slots |-> [ring.slots EXCEPT ![idx] = s3],
                   next  |-> NextAfter(ring, idx)],
        ret   |-> {MakeRecvPacket(idx)},
        wrote |-> {idx}]

\* Mutant of Ring_recv: demand-driven reuse, the lowest free slot is claimed
\* instead of the slot at `next`.
Ring_recvFirstFree(ring, t) ==
    LET free == {k \in DOMAIN ring.slots : ~ring.slots[k].status} IN
    IF free = {}
    THEN [ring |-> ring, ret |-> {}, wrote |-> {}]
    ELSE ClaimSlot(ring, CHOOSE k \in free : \A j \in free : k <= j, t)

\* Mutant of Ring_recv: `next` is advanced before the check of main.rs:85,
\* so a failed attempt moves the cursor too.
Ring_recvAdvanceOnFail(ring, t) ==
    LET next_idx == ring.next IN
    IF SlotInUse(ring, next_idx)
    THEN [ring  |-> [ring EXCEPT !.next = NextAfter(ring, next_idx)],
          ret   |-> {}, wrote |-> {}]
    ELSE ClaimSlot(ring, next_idx, t)

\* Ring::recv (main.rs:80-111) at clock reading t.  The result holds the
\* ring afterwards, the Option<RecvPacket> returned (a set of at most one
\* element) and the set of slots whose packet buffer was written.
Ring_recv(ring, t) ==
    LET next_idx == ring.next IN
    IF SlotInUse(ring, next_idx)
    THEN [ring |-> ring, ret |-> {}, wrote |-> {}]
    ELSE ClaimSlot(ring, next_idx, t)

\* Mutant of RecvPacket_drop: the store of main.rs:32 is missing.
RecvPacket_dropNoStore(ring, pkt) == ring

\* Mutant of RecvPacket_drop: false is stored into the following slot's flag.
RecvPacket_dropWrongSlot(ring, pkt) ==
    [ring EXCEPT !.slots[(pkt.slot + 1) % SlotsLen(ring)].status = FALSE]

\* Mutant of RecvPacket_drop: the release also rewinds `next` to the freed
\* slot, so that it is reused at once.
RecvPacket_dropRewind(ring, pkt) ==
    [ring EXCEPT !.slots[pkt.slot].status = FALSE, !.next = pkt.slot]

\* Drop for RecvPacket (main.rs:27-34): store false into the borrowed flag.
RecvPacket_drop(ring, pkt) ==
    [ring EXCEPT !.slots[pkt.slot].status = FALSE]

\* ----------------------------------------------------------------- Socket
\* Socket::new (main.rs:129-133)
Socket_new(ts) == [inner |-> Ring_new(ts)]

\* Socket::recv (main.rs:136-140): Ring::recv on the inner ring.
Socket_recv(sock, t) ==
    LET r == Ring_recv(sock.inner, t)
    IN [socket |-> [inner |-> r.ring], ret |-> r.ret, wrote |-> r.wrote]

\* Display for RecvPacket (main.rs:15-25): idx, status now, packet now.
Display(sock, pkt) ==
    [idx    |-> pkt.idx,
     status |-> sock.inner.slots[pkt.slot].status,
     packet |-> sock.inner.slots[pkt.slot].packet.data]

\* `for pkt in &v { println!("{}", pkt) }` (main.rs:154-156, 168-170)
PrintAll(sock, pkts) == [j \in 1 .. Len(pkts) |-> Display(sock, pkts[j])]

\* ------------------------------------------------------------------ clock
\* Instant::now(): a reading not before the previous one.
Readings == {t \in {clock, clock + 1} : t <= MaxClock}

\* The readings of the loop of Ring::new: non-decreasing in the slot index.
NewReadings ==
    {ts \in [SlotIdx -> 0 .. MaxClock] :
        \A i \in SlotIdx : i > 0 => ts[i - 1] <= ts[i]}

\* Sequence s without its element at position i.
RemoveAt(s, i) == [j \in 1 .. (Len(s) - 1) |-> IF j < i THEN s[j] ELSE s[j + 1]]

\* The callers of the step-wise executions of recv().
Callers == {"a", "b"}

\* A caller that is not inside recv().
Idle == [pc |-> "idle", next_idx |-> 0, i |-> 0, n |-> 0]

\* -------------------------------------------------------------- operations
\* State after `Socket::new()` and `vec![]` (main.rs:145-147).
Construct(start) ==
    /\ \E ts \in NewReadings :
          /\ socket = Socket_new(ts)
          /\ clock = ts[RingCapacity - 1]
    /\ v = << >>
    /\ pc = start
    /\ out1 = << >>
    /\ out2 = << >>
    /\ last = [op |-> "new", ret |-> {}, wrote |-> {}]
    /\ prev = {}
    /\ hist = [k \in SlotIdx |-> "new"]
    /\ seen = [k \in SlotIdx |-> {}]
    /\ fresh = {0}
    /\ since = [k \in SlotIdx |-> {}]
    /\ eager = TRUE
    /\ call = [c \in Callers |-> Idle]
    /\ started = 0
    /\ raced = FALSE

\* One `socket.recv()` whose Some(packet) is pushed to v
\* (main.rs:151-153, 165-167).
DoRecv ==
    \E t \in Readings :
      \E r \in {Socket_recv(socket, t)} :
        /\ socket' = r.socket
        /\ clock' = IF r.ret = {} THEN clock ELSE t
        /\ v' = IF r.ret = {} THEN v
                ELSE Append(v, CHOOSE p \in r.ret : TRUE)
        /\ last' = [op |-> "recv", ret |-> r.ret, wrote |-> r.wrote]
        /\ prev' = IF r.ret = {} THEN prev ELSE {p.idx : p \in r.ret}
        /\ hist' = [k \in SlotIdx |->
                      IF \E p \in r.ret : p.slot = k THEN "claim" ELSE hist[k]]
        /\ seen' = [k \in SlotIdx |->
                      IF \E p \in r.ret : p.slot = k
                      THEN seen[k] \cup {r.socket.inner.slots[k].packet.data}
                      ELSE seen[k]]
        /\ fresh' = {IF n < MaxCalls THEN n + 1 ELSE n : n \in fresh}
        /\ since' = [k \in SlotIdx |->
                       IF r.ret = {} THEN since[k]
                       ELSE IF \E p \in r.ret : p.slot = k THEN {0}
                       ELSE {IF n < MaxSince THEN n + 1 ELSE n : n \in since[k]}]
        /\ eager' = (eager /\ v = << >>)
        /\ UNCHANGED <<call, started, raced>>

\* The RecvPacket at position i of v is destroyed.
DoDrop(i) ==
    /\ i \in 1 .. Len(v)
    /\ socket' = [inner |-> RecvPacket_drop(socket.inner, v[i])]
    /\ v' = RemoveAt(v, i)
    /\ last' = [op |-> "drop", ret |-> {v[i]}, wrote |-> {}]
    /\ hist' = [hist EXCEPT ![v[i].slot] = "release"]
    /\ fresh' = {}
    /\ UNCHANGED <<clock, prev, seen, since, eager, call, started, raced>>

\* ----------------------------------------------- an arbitrary API caller
Init == Construct("caller")

Recv == DoRecv /\ UNCHANGED <<pc, out1, out2>>

Drop == \E i \in 1 .. Len(v) : DoDrop(i) /\ UNCHANGED <<pc, out1, out2>>

Next == Recv \/ Drop

Spec == Init /\ [][Next]_vars

\* The caller of C16: it keeps polling recv() and every RecvPacket it
\* holds is eventually dropped.
SpecFair == Spec /\ WF_vars(Recv) /\ WF_vars(Drop)

\* ------------------------------------------------------------------ main()
InitMain == Construct("drain1")

\* First `while let Some(packet) = socket.recv() { v.push(packet) }`
\* (main.rs:151-153); on None the loop ends and v is printed (154-156).
MainRecv1 ==
    /\ pc = "drain1"
    /\ DoRecv
    /\ pc' = IF last'.ret = {} THEN "clear" ELSE "drain1"
    /\ out1' = IF last'.ret = {} THEN PrintAll(socket', v') ELSE out1
    /\ UNCHANGED out2

\* `v.clear()` (main.rs:159): every element of v is dropped, one per step;
\* the order of the drops is left open.
MainClear ==
    /\ pc = "clear"
    /\ \E i \in 1 .. Len(v) : DoDrop(i)
    /\ UNCHANGED <<pc, out1, out2>>

\* `v.clear()` is over once v is empty.
MainCleared ==
    /\ pc = "clear"
    /\ v = << >>
    /\ pc' = "drain2"
    /\ UNCHANGED <<socket, v, clock, out1, out2, last, prev, hist, seen, fresh,
                   since, eager, call, started, raced>>

\* Second `while let` loop (main.rs:165-167) and print (168-170).
MainRecv2 ==
    /\ pc = "drain2"
    /\ DoRecv
    /\ pc' = IF last'.ret = {} THEN "done" ELSE "drain2"
    /\ out2' = IF last'.ret = {} THEN PrintAll(socket', v') ELSE out2
    /\ UNCHANGED out1

NextMain == MainRecv1 \/ MainClear \/ MainCleared \/ MainRecv2

SpecMain == InitMain /\ [][NextMain]_vars

\* ------------------------------------------- recv() one statement a step
\* The statements of Ring::recv as separate steps of caller c, as they
\* interleave when recv() runs with no exclusion around it.
ghosts == <<pc, out1, out2, prev, hist, seen, fresh, since, eager>>

\* An intermediate statement of recv(): nothing returned yet.
Stepped(w) == [op |-> "step", ret |-> {}, wrote |-> w]

\* `let next_idx = self.next;` (main.rs:81)
StepEnter(c) ==
    /\ call[c].pc = "idle"
    /\ call' = [call EXCEPT ![c] = [Idle EXCEPT !.pc = "load",
                                           !.next_idx = socket.inner.next]]
    /\ last' = Stepped({})
    /\ UNCHANGED <<socket, v, clock, raced>>

\* `if self.slots[next_idx].status.load(Acquire) { return None; }`
\* (main.rs:85-87)
StepLoad(c) ==
    /\ call[c].pc = "load"
    /\ IF SlotInUse(socket.inner, call[c].next_idx)
       THEN /\ call' = [call EXCEPT ![c] = Idle]
            /\ last' = [op |-> "recv", ret |-> {}, wrote |-> {}]
            /\ raced' = raced
       ELSE /\ call' = [call EXCEPT ![c].pc = "store"]
            /\ last' = Stepped({})
            /\ raced' = (raced \/ \E d \in Callers \ {c} :
                                     /\ call[d].pc = "store"
                                     /\ call[d].next_idx = call[c].next_idx)
    /\ UNCHANGED <<socket, v, clock>>

\* `self.slots[next_idx].status.store(true, Release);` (main.rs:90)
StepStore(c) ==
    /\ call[c].pc = "store"
    /\ socket' = [socket EXCEPT
                    !.inner.slots[call[c].next_idx].status = TRUE]
    /\ call' = [call EXCEPT ![c].pc = "advance"]
    /\ last' = Stepped({})
    /\ UNCHANGED <<v, clock, raced>>

\* `self.slots[next_idx].timestamp = Instant::now();`
\* `self.next = (next_idx + 1) % self.slots.len();` (main.rs:93-95)
StepAdvance(c) ==
    /\ call[c].pc = "advance"
    /\ \E t \in Readings :
          /\ socket' = [socket EXCEPT
                          !.inner.slots[call[c].next_idx].timestamp = t,
                          !.inner.next =
                              NextAfter(socket.inner, call[c].next_idx)]
          /\ clock' = t
    /\ call' = [call EXCEPT ![c].pc = "clear"]
    /\ last' = Stepped({})
    /\ UNCHANGED <<v, raced>>

\* `self.slots[next_idx].packet.clear();` and the bounds of
\* `for i in 0..self.slots[next_idx].packet.capacity()` (main.rs:98-99)
StepClear(c) ==
    /\ call[c].pc = "clear"
    /\ socket' = [socket EXCEPT
                    !.inner.slots[call[c].next_idx].packet = VecClear(@)]
    /\ call' = [call EXCEPT
                  ![c].pc = "fill", ![c].i = 0,
                  ![c].n = socket.inner.slots[call[c].next_idx].packet.cap]
    /\ last' = Stepped({call[c].next_idx})
    /\ UNCHANGED <<v, clock, raced>>

\* One `self.slots[next_idx].packet.push(i as u8);` (main.rs:100)
StepPush(c) ==
    /\ call[c].pc = "fill"
    /\ call[c].i < call[c].n
    /\ socket' = [socket EXCEPT
                    !.inner.slots[call[c].next_idx].packet =
                        VecPush(@, call[c].i % U8)]
    /\ call' = [call EXCEPT ![c].i = @ + 1]
    /\ last' = Stepped({call[c].next_idx})
    /\ UNCHANGED <<v, clock, raced>>

\* The loop is over: `Some(RecvPacket { .. })` (main.rs:103-110), which
\* the caller pushes to v.
StepReturn(c) ==
    /\ call[c].pc = "fill"
    /\ call[c].i >= call[c].n
    /\ v' = Append(v, MakeRecvPacket(call[c].next_idx))
    /\ call' = [call EXCEPT ![c] = Idle]
    /\ last' = [op |-> "recv", ret |-> {MakeRecvPacket(call[c].next_idx)},
                wrote |-> {}]
    /\ UNCHANGED <<socket, clock, raced>>

\* One claimer, any number of releasers: caller "a" alone runs recv(),
\* statement by statement, and RecvPackets are dropped at any point.
GateEnter   == StepEnter("a")   /\ UNCHANGED <<ghosts, started>>
GateLoad    == StepLoad("a")    /\ UNCHANGED <<ghosts, started>>
GateStore   == StepStore("a")   /\ UNCHANGED <<ghosts, started>>
GateAdvance == StepAdvance("a") /\ UNCHANGED <<ghosts, started>>
GateClear   == StepClear("a")   /\ UNCHANGED <<ghosts, started>>
GatePush    == StepPush("a")    /\ UNCHANGED <<ghosts, started>>
GateReturn  == StepReturn("a")  /\ UNCHANGED <<ghosts, started>>

NextGate ==
    \/ GateEnter \/ GateLoad \/ GateStore \/ GateAdvance
    \/ GateClear \/ GatePush \/ GateReturn
    \/ Drop

SpecGate == Init /\ [][NextGate]_vars

\* Two callers run recv() on the same Socket with no exclusion; they start
\* at most MaxRaceCalls invocations in all.
RaceEnter ==
    /\ started < MaxRaceCalls
    /\ \E c \in Callers : StepEnter(c)
    /\ started' = started + 1
    /\ UNCHANGED ghosts
RaceLoad    == (\E c \in Callers : StepLoad(c))    /\ UNCHANGED <<ghosts, started>>
RaceStore   == (\E c \in Callers : StepStore(c))   /\ UNCHANGED <<ghosts, started>>
RaceAdvance == (\E c \in Callers : StepAdvance(c)) /\ UNCHANGED <<ghosts, started>>
RaceClear   == (\E c \in Callers : StepClear(c))   /\ UNCHANGED <<ghosts, started>>
RacePush    == (\E c \in Callers : StepPush(c))    /\ UNCHANGED <<ghosts, started>>
RaceReturn  == (\E c \in Callers : StepReturn(c))  /\ UNCHANGED <<ghosts, started>>

NextRace ==
    \/ RaceEnter \/ RaceLoad \/ RaceStore \/ RaceAdvance
    \/ RaceClear \/ RacePush \/ RaceReturn
    \/ Drop

SpecRace == Init /\ [][NextRace]_vars

\* ------------------------------------------------------------ observations
\* Occupancy flag of slot k.
Status(k) == socket.inner.slots[k].status
\* Buffer contents of slot k.
Packet(k) == socket.inner.slots[k].packet.data
\* The cursor.
Cursor == socket.inner.next
\* Slots referenced by a live RecvPacket.
LiveSlots == {v[i].slot : i \in 1 .. Len(v)}
\* The last operation was a recv() that returned None / Some.
RecvNone == last.op = "recv" /\ last.ret = {}
RecvSome == last.op = "recv" /\ last.ret # {}

\* ----------------------------------------------------------------- claims
\* C1 -- No double-issue: in every reachable state the live RecvPackets
\* reference pairwise distinct slots, so no recv() returned a RecvPacket for
\* a slot whose RecvPacket was still live.
C1_NoDoubleIssue ==
    \A i, j \in 1 .. Len(v) : i # j => v[i].slot # v[j].slot

\* A recv() succeeded after a release while other RecvPackets were live.
C1_Witness == RecvSome /\ fresh = {} /\ Len(v) >= 3

\* C2 -- Capacity bound: never more live RecvPackets than slots; on a fresh
\* socket, with no release, recv() calls 1..N succeed and call N+1 returns
\* None.
C2_CapacityBound ==
    /\ Len(v) <= RingCapacity
    /\ \A n \in fresh :
          /\ (1 <= n /\ n <= RingCapacity) => (RecvSome /\ Len(v) = n)
          /\ n = RingCapacity + 1 => (RecvNone /\ Len(v) = RingCapacity)

\* The (N+1)-th recv() on a fresh socket has just returned.
C2_Witness == fresh = {RingCapacity + 1}

\* C3 -- Round-robin order: the first successful recv() returns index 0 and
\* each later successful recv() returns (previous successful index + 1)
\* mod N, whatever drops and failed calls happened in between.
C3_RoundRobin ==
    [][(last'.op = "recv" /\ last'.ret # {}) =>
          \A p \in last'.ret :
             /\ prev = {} => p.idx = 0
             /\ \A q \in prev : p.idx = (q + 1) % RingCapacity]_vars

\* Slot 1 was claimed in turn while slot 3, released earlier, was free.
C3_Witness ==
    /\ RecvSome
    /\ \E p \in last.ret : p.idx = 1
    /\ hist[3] = "release"
    /\ hist[0] = "claim"

\* C4 -- Release only by drop, exactly once: a flag goes from true to false
\* only in the step that drops the RecvPacket of that slot, every drop
\* leaves its slot's flag false, and per slot claims and releases alternate
\* starting with a claim.
C4_ReleaseOnlyByDrop ==
    [][/\ \A k \in SlotIdx :
            (Status(k) /\ ~Status(k)') =>
               (last'.op = "drop" /\ \E p \in last'.ret : p.slot = k)
       /\ last'.op = "drop" =>
            \A p \in last'.ret :
               /\ ~Status(p.slot)'
               /\ hist[p.slot] = "claim"
               /\ hist'[p.slot] = "release"
       /\ last'.op = "recv" =>
            \A p \in last'.ret :
               /\ hist[p.slot] \in {"new", "release"}
               /\ hist'[p.slot] = "claim"]_vars

\* Slot 0 has been released for the second time: the cursor is past it
\* and the four other slots are still held.
C4_Witness ==
    /\ last.op = "drop"
    /\ hist[0] = "release"
    /\ Cursor = 1
    /\ Len(v) = RingCapacity - 1

\* C5 -- Drain-refill idempotence (main): draining a fresh socket, dropping
\* all RecvPackets in any order and draining again yields both times N
\* RecvPackets with indices 0..N-1 and the same buffer contents per index.
C5_DrainRefill ==
    pc = "done" =>
       /\ Len(out1) = RingCapacity
       /\ Len(out2) = RingCapacity
       /\ \A j \in 1 .. RingCapacity :
             /\ out1[j].idx = j - 1
             /\ out2[j].idx = j - 1
             /\ out1[j].packet = out2[j].packet

\* main has finished its second drain.
C5_Witness == pc = "done" /\ Len(out2) = RingCapacity

\* C6 (as stated) -- recv() returns None only when no slot of the ring is
\* free: after a recv() that returned None every slot's flag is true.
C6_NoneOnlyWhenAllOccupied ==
    RecvNone => \A k \in SlotIdx : Status(k)

\* C6 (amended) -- recv() returns None only when the slot at the cursor is
\* occupied; free slots elsewhere in the ring do not make it succeed.
C6_NoneOnlyWhenCursorOccupied ==
    RecvNone => Status(Cursor)

\* recv() has returned None although some slot of the ring is free.
C6_Witness == RecvNone /\ \E k \in SlotIdx : ~Status(k)

\* C7 -- No mutation under a live RecvPacket: the slot of a live RecvPacket
\* has its flag true; no step writes or changes the buffer of a slot whose
\* RecvPacket is live at the start of the step; a buffer is written only by
\* the successful recv() that claims its slot, which leaves the flag true.
C7_LiveOccupied == \A k \in LiveSlots : Status(k)

C7_NoWriteUnderLive ==
    \A k \in SlotIdx :
       /\ k \in LiveSlots => (k \notin last'.wrote /\ Packet(k)' = Packet(k))
       /\ (k \in last'.wrote \/ Packet(k)' # Packet(k)) =>
             /\ last'.op = "recv"
             /\ last'.ret = {MakeRecvPacket(k)}
             /\ ~Status(k)
             /\ Status(k)'

C8_BufferDeterminism ==
    \A k \in SlotIdx : \A b1, b2 \in seen[k] : b1 = b2

\* Every slot has been claimed, released and claimed again.
C8_Witness ==
    /\ fresh = {}
    /\ Cursor = 0
    /\ LiveSlots = SlotIdx
    /\ \A k \in SlotIdx : seen[k] # {}

\* C9 -- recv() is decided by the cursor slot alone: it returns None iff
\* the flag of the slot at the cursor is true, and otherwise a RecvPacket
\* whose index is the cursor before the call.
C9_CursorDecides ==
    [][last'.op = "recv" =>
          /\ last'.ret = {} <=> Status(Cursor)
          /\ \A p \in last'.ret : p.idx = Cursor /\ p.slot = Cursor]_vars

\* recv() returned slot 2 at the cursor while the lower slot 0 was free.
C9_Witness ==
    /\ RecvSome
    /\ \E p \in last.ret : p.idx = 2
    /\ ~Status(0)
    /\ fresh = {}

\* C10 -- A failed recv() changes nothing: cursor, every flag, every buffer
\* and the live RecvPackets are the same after the call as before it.
C10_FailedRecvFrame ==
    [][(last'.op = "recv" /\ last'.ret = {}) =>
          /\ Cursor' = Cursor
          /\ \A k \in SlotIdx :
                Status(k)' = Status(k) /\ Packet(k)' = Packet(k)
          /\ v' = v]_vars

\* recv() failed on a full ring after earlier releases.
C10_Witness == RecvNone /\ fresh = {} /\ Len(v) = RingCapacity

\* C11 -- Cursor invariant: the cursor is always an index of the ring, it
\* is 0 after construction, and a successful recv() sets it to
\* (old cursor + 1) mod N.
C11_CursorInRange ==
    /\ Cursor \in SlotIdx
    /\ last.op = "new" => Cursor = 0

C11_CursorStep ==
    (last'.op = "recv" /\ last'.ret # {}) =>
       Cursor' = (Cursor + 1) % RingCapacity

C11_CursorInvariant == [] C11_CursorInRange /\ [][C11_CursorStep]_vars

\* A successful recv() of the last slot has wrapped the cursor to 0.
C11_Witness ==
    /\ RecvSome
    /\ \E p \in last.ret : p.idx = RingCapacity - 1
    /\ Cursor = 0

\* C12 -- A successful recv() touches only the claimed slot: the flag and
\* buffer of every other slot are unchanged, and the claimed slot's flag
\* goes from false to true.
C12_SuccessFrame ==
    [][(last'.op = "recv" /\ last'.ret # {}) =>
          \A p \in last'.ret :
             /\ ~Status(p.slot)
             /\ Status(p.slot)'
             /\ \A j \in SlotIdx \ {p.slot} :
                   /\ Status(j)' = Status(j)
                   /\ Packet(j)' = Packet(j)
                   /\ j \notin last'.wrote]_vars

\* Slot 2 was claimed while slot 1 was held and slots 3, 4 had never been
\* claimed (their buffers still hold the fill of Ring::new).
C12_Witness ==
    /\ RecvSome
    /\ \E p \in last.ret : p.slot = 2
    /\ Status(1)
    /\ hist[3] = "new"
    /\ hist[4] = "new"

\* C13 -- Dropping the RecvPacket of slot k touches only that slot's flag:
\* the flag becomes false; the cursor, every other flag and every buffer
\* are unchanged; and a recv() right after the drop returns slot k only if
\* the cursor was at k already.
C13_DropFrame ==
    [][/\ last'.op = "drop" =>
            \A p \in last'.ret :
               /\ ~Status(p.slot)'
               /\ Cursor' = Cursor
               /\ \A j \in SlotIdx \ {p.slot} : Status(j)' = Status(j)
               /\ \A j \in SlotIdx : Packet(j)' = Packet(j)
       /\ (last.op = "drop" /\ last'.op = "recv") =>
            \A q \in last.ret : \A p \in last'.ret :
               p.slot = q.slot => Cursor = q.slot]_vars

\* The RecvPacket of slot 3 was dropped on a full ring: slot 3 is free and
\* the cursor still points at the occupied slot 0.
C13_Witness ==
    /\ last.op = "drop"
    /\ \E p \in last.ret : p.slot = 3
    /\ Cursor = 0
    /\ Status(0)
    /\ Len(v) = RingCapacity - 1

\* C15 (as stated) -- The buffer regenerated at a claim has the same length
\* for every slot and contents keyed by the slot index: live RecvPackets of
\* two different slots carry different buffer contents.
C15_FillKeyedBySlot ==
    \A i, j \in 1 .. Len(v) :
       /\ Len(Packet(v[i].slot)) = Len(Packet(v[j].slot))
       /\ v[i].slot # v[j].slot => Packet(v[i].slot) # Packet(v[j].slot)

\* C15 (amended) -- The buffer regenerated at a claim has the same length
\* for every slot (the buffer's capacity) and holds the byte positions
\* 0, 1, .., len-1 whatever the slot index: live RecvPackets of different
\* slots carry the same buffer contents.
C15_FillIsPositional ==
    \A k \in LiveSlots :
       /\ Len(Packet(k)) = PacketCapacity
       /\ \A j \in 1 .. PacketCapacity : Packet(k)[j] = (j - 1) % U8

\* The RecvPackets of slots 1 and 4 are live and show the same bytes.
C15_Witness ==
    /\ {1, 4} \subseteq LiveSlots
    /\ Packet(1) = Packet(4)

\* C19 -- Flag/RecvPacket correspondence: the slots whose flag is true are
\* exactly the slots referenced by a live RecvPacket, one RecvPacket each;
\* with no RecvPacket live every flag is false.
C19_FlagHandleCorrespondence ==
    /\ {k \in SlotIdx : Status(k)} = LiveSlots
    /\ Cardinality({k \in SlotIdx : Status(k)}) = Len(v)
    /\ v = << >> => \A k \in SlotIdx : ~Status(k)

\* After some drops exactly the RecvPackets of slots 0 and 3 are live.
C19_Witness ==
    /\ last.op = "drop"
    /\ LiveSlots = {0, 3}
    /\ Status(0) /\ Status(3) /\ ~Status(1)

\* C14 -- Release-enables-reuse after exactly one cycle: as long as every
\* RecvPacket is dropped before the next recv(), recv() never returns None
\* and a slot is returned again exactly at the N-th successful recv() after
\* the one that last returned it.
C14_NoLateReuse ==
    eager => \A k \in SlotIdx : \A n \in since[k] : n <= RingCapacity - 1

C14_EagerStep ==
    (eager /\ v = << >> /\ last'.op = "recv") =>
       /\ last'.ret # {}
       /\ \A p \in last'.ret : \A n \in since[p.slot] : n = RingCapacity - 1

C14_OneCycleReuse == [] C14_NoLateReuse /\ [][C14_EagerStep]_vars

\* Under immediate release, slot 0 has been returned a second time.
C14_Witness ==
    /\ eager
    /\ RecvSome
    /\ \E p \in last.ret : p.slot = 0
    /\ \A k \in SlotIdx : since[k] # {}

\* C17 -- Leak-forever: while the RecvPacket of slot k is not dropped, the
\* flag of k stays true, at most N-1 further recv() calls succeed, and once
\* the cursor is at k it stays there and every recv() returns None, whatever
\* the state of the other slots.
C17_LeakedStaysOccupied ==
    \A k \in LiveSlots :
       /\ Status(k)
       /\ \A n \in since[k] : n <= RingCapacity - 1

C17_LeakStep ==
    \A k \in SlotIdx :
       (k \in LiveSlots /\ k \in LiveSlots') =>
          /\ Status(k)'
          /\ Cursor = k =>
                /\ Cursor' = k
                /\ last'.op = "recv" => last'.ret = {}

C17_LeakForever == [] C17_LeakedStaysOccupied /\ [][C17_LeakStep]_vars

\* Only the RecvPacket of the cursor slot is still held, N-1 further claims
\* succeeded since it was returned, all of them released, and recv() has
\* just returned None.
C17_Witness ==
    /\ RecvNone
    /\ Len(v) = 1
    /\ LiveSlots = {Cursor}
    /\ since[Cursor] = {RingCapacity - 1}

\* C16 -- Unavailability is transient under release: dropping the
\* RecvPacket of the slot at the cursor frees that slot, the next recv()
\* then returns it whatever the other slots' state, and under a caller that
\* keeps polling and drops what it holds a None is followed by a Some.
C16_CursorFreed ==
    (last.op = "drop" /\ \E q \in last.ret : q.slot = Cursor) =>
       ~Status(Cursor)

C16_NextRecvSucceeds ==
    (hist[Cursor] = "release" /\ last'.op = "recv") =>
       last'.ret = {MakeRecvPacket(Cursor)}

C16_TransientUnavailability ==
    /\ [] C16_CursorFreed
    /\ [][C16_NextRecvSucceeds]_vars
    /\ RecvNone ~> RecvSome

\* Slot 2, released while the four other slots were held and the cursor
\* was waiting on it, has been returned again.
C16_Witness ==
    /\ RecvSome
    /\ last.ret = {MakeRecvPacket(2)}
    /\ Len(v) = RingCapacity
    /\ fresh = {}

\* C18 -- The single-caller assumption is necessary: with two callers
\* running recv() statement by statement and no exclusion, two live
\* RecvPackets come to reference the same slot (the witness), and they do
\* so only when one caller passed the flag check of a slot between the
\* other's load and store of that flag, the window an atomic test-and-set
\* would close.
C18_DoubleIssue ==
    \E i, j \in 1 .. Len(v) : i # j /\ v[i].slot = v[j].slot

C18_DoubleIssueOnlyByRace == C18_DoubleIssue => raced

\* Both callers have returned a RecvPacket for slot 0.
C18_Witness ==
    /\ C18_DoubleIssue
    /\ Len(v) = 2
    /\ v[1].slot = 0
    /\ \A c \in Callers : call[c].pc = "idle"

\* C20 -- The flag alone gates one claimer against concurrent releasers:
\* with a single caller running recv() statement by statement and drops
\* interleaved anywhere, no slot has two live RecvPackets, the slot being
\* claimed has none, and no step writes the buffer of a slot whose
\* RecvPacket is live.
C20_OneHandlePerSlot ==
    /\ \A k \in SlotIdx :
          Cardinality({i \in 1 .. Len(v) : v[i].slot = k}) <= 1
    /\ \A c \in Callers :
          call[c].pc \in {"store", "advance", "clear", "fill"} =>
             call[c].next_idx \notin LiveSlots

C20_NoWriteUnderLive ==
    \A k \in LiveSlots : k \notin last'.wrote /\ Packet(k)' = Packet(k)

C20_FlagGatesSingleClaimer ==
    [] C20_OneHandlePerSlot /\ [][C20_NoWriteUnderLive]_vars

\* A RecvPacket was dropped while the claimer was in the middle of the
\* refill of a slot it reclaims, three other RecvPackets still live.
C20_Witness ==
    /\ last.op = "drop"
    /\ call["a"].pc = "fill"
    /\ call["a"].i = 2
    /\ hist[call["a"].next_idx] = "release"
    /\ Len(v) = 3

====
